---- MODULE Spec2Model ----
(***************************************************************************)
(* The asynchronous audit-event pipeline of the admin backend:             *)
(* internal/app/handlers/user_handlers.go (auditLogChan, auditBatchChan,   *)
(* StartAuditLogger, StopAuditLogger, auditWorker, auditBatchWorker,       *)
(* processAuditLog, processAuditBatch) and its producers                   *)
(* (createUserHandler, createMenuHandler, createRoleHandler via            *)
(* logAuditEntry).                                                         *)
(*                                                                         *)
(* Channel capacities and the batch threshold are scaled down              *)
(* (2000 -> QueueCap, 100 -> BatchChanCap, 10 -> BatchSize); the number of *)
(* accumulating workers is the program's.  One Tick is one timer interval  *)
(* (100ms).                                                                *)
(***************************************************************************)
EXTENDS Naturals, Sequences, FiniteSets, Bags, TLC

\* ---- program constants ----
numAuditWorkers == 3

\* ---- bounds of the model ----
QueueCap == 2
BatchChanCap == 1
BatchSize == 2
CoreEvents == 3
LiveEvents == 2
PreformedLen == 1

\* the scenario of two full batches and a rest (25 entries at a threshold of 10)
ScenarioEvents == 2 * BatchSize + 1
MaxBatches == 1

VARIABLES
    auditLogChan,    \* buffered channel of entries (FIFO)
    auditBatchChan,  \* buffered channel of pre-formed batches (FIFO)
    auditStopCh,     \* TRUE once close(auditStopCh) has run
    auditWorkerWG,   \* the WaitGroup counter
    pc,              \* position of each worker goroutine
    batch,           \* auditWorker's local batch
    batchEntries,    \* the pre-formed batch a worker is committing
    batchTimer,      \* auditWorker's batchTimer: "armed", "fired", "drained"
    aged,            \* a full interval has passed since the batch's first entry arrived
    mainPc,          \* position of the caller of StartAuditLogger / StopAuditLogger
    atStop,          \* what was queued when StopAuditLogger was called, and the
                     \* number of the next request when it returned
    store,           \* the audit_logs table: a bag of rows
    logs,            \* records written through log.Printf
    handed,          \* every call of processAuditBatch made by a worker
    returned,        \* every call of processAuditBatch that has returned
    enqueued,        \* every entry a producer's send placed on auditLogChan
    roles,           \* the roles table: each role id absent, active or soft-deleted
    responses,       \* HTTP responses written by the request handlers
    nextId,          \* number of the next request
    batchesSent      \* pre-formed batches sent so far

vars == <<auditLogChan, auditBatchChan, auditStopCh, auditWorkerWG, pc, batch,
          batchEntries, batchTimer, aged, mainPc, atStop, store, logs, handed,
          returned, enqueued, roles, responses, nextId, batchesSent>>

pipeVars == <<auditStopCh, auditWorkerWG, pc, batch, batchEntries, batchTimer,
              aged, mainPc, atStop, store, handed, returned, roles>>

\* a nil *uint64 (no user id)
Nil == 0

Workers == 0 .. (numAuditWorkers - 1)
BatchWorker == numAuditWorkers
AllWorkers == Workers \cup {BatchWorker}

Ids(s) == {s[i].id : i \in 1 .. Len(s)}
BatchIds(ch) == UNION {Ids(ch[i]) : i \in 1 .. Len(ch)}

\* ---- auditLogEntry ----
auditLogEntry(id, userID, event, table, recordID) ==
    [id |-> id, UserID |-> userID, Event |-> event, Table |-> table,
     RecordID |-> recordID]

\* ---- producers ----

\* a send without the default case: the producer waits for free space
TrySend_blocking(entry) ==
    /\ Len(auditLogChan) < QueueCap
    /\ auditLogChan' = Append(auditLogChan, entry)
    /\ enqueued' = enqueued \cup {entry}
    /\ logs' = logs

\* a send that takes one entry too many
TrySend_offByOne(entry) ==
    IF Len(auditLogChan) <= QueueCap
    THEN /\ auditLogChan' = Append(auditLogChan, entry)
         /\ enqueued' = enqueued \cup {entry}
         /\ logs' = logs
    ELSE /\ auditLogChan' = auditLogChan
         /\ enqueued' = enqueued
         /\ logs' = logs \cup {[msg |-> "queue_full", id |-> entry.id]}

\* a send that refuses entries once auditStopCh is closed
TrySend_closedAware(entry) ==
    IF Len(auditLogChan) < QueueCap /\ ~auditStopCh
    THEN /\ auditLogChan' = Append(auditLogChan, entry)
         /\ enqueued' = enqueued \cup {entry}
         /\ logs' = logs
    ELSE /\ auditLogChan' = auditLogChan
         /\ enqueued' = enqueued
         /\ logs' = logs \cup {[msg |-> "queue_full", id |-> entry.id]}

\* select { case auditLogChan <- entry: default: log.Printf("... queue full ...") }
TrySend(entry) ==
    IF Len(auditLogChan) < QueueCap
    THEN /\ auditLogChan' = Append(auditLogChan, entry)
         /\ enqueued' = enqueued \cup {entry}
         /\ logs' = logs
    ELSE /\ auditLogChan' = auditLogChan
         /\ enqueued' = enqueued
         /\ logs' = logs \cup {[msg |-> "queue_full", id |-> entry.id]}

\* logAuditEntry: returns early without a user id in the Gin context
logAuditEntry(userID, id, event, table, recordID) ==
    IF userID = Nil
    THEN /\ auditLogChan' = auditLogChan
         /\ enqueued' = enqueued
         /\ logs' = logs \cup {[msg |-> "no_user_id", id |-> id]}
    ELSE TrySend(auditLogEntry(id, userID, event, table, recordID))

\* c.JSON(status, body)
Respond(handler, input, status, body) ==
    responses' = responses \cup
        {[handler |-> handler, input |-> input, status |-> status, body |-> body]}

UserInputs == {"bad_json", "duplicate", "db_error", "ok"}
MenuInputs == {"bad_json", "service_error", "ok"}
RoleInputs == {"bad_json", "service_error", "ok"}
ContextUsers == {Nil, 1}

\* a handler that answers 503 when the audit entry could not be queued
createUserHandler_surfacing(input) ==
    /\ nextId' = nextId + 1
    /\ CASE input = "bad_json" ->
              /\ Respond("createUser", input, 400, "bind error")
              /\ UNCHANGED <<auditLogChan, enqueued, logs>>
         [] input = "duplicate" ->
              /\ Respond("createUser", input, 409, "Username or email already exists")
              /\ logs' = logs \cup {[msg |-> "insert_user_failed", id |-> nextId]}
              /\ UNCHANGED <<auditLogChan, enqueued>>
         [] input = "db_error" ->
              /\ Respond("createUser", input, 500, "Failed to create user")
              /\ logs' = logs \cup {[msg |-> "insert_user_failed", id |-> nextId]}
              /\ UNCHANGED <<auditLogChan, enqueued>>
         [] input = "ok" ->
              /\ IF Len(auditLogChan) < QueueCap
                 THEN Respond("createUser", input, 201, "User created")
                 ELSE Respond("createUser", input, 503, "Audit queue full")
              /\ TrySend(auditLogEntry(nextId, Nil, "CREATE", "users", nextId))
    /\ UNCHANGED <<auditBatchChan, batchesSent>>
    /\ UNCHANGED pipeVars

\* createUserHandler POST /api/users
createUserHandler(input) ==
    /\ nextId' = nextId + 1
    /\ CASE input = "bad_json" ->
              /\ Respond("createUser", input, 400, "bind error")
              /\ UNCHANGED <<auditLogChan, enqueued, logs>>
         [] input = "duplicate" ->
              /\ Respond("createUser", input, 409, "Username or email already exists")
              /\ logs' = logs \cup {[msg |-> "insert_user_failed", id |-> nextId]}
              /\ UNCHANGED <<auditLogChan, enqueued>>
         [] input = "db_error" ->
              /\ Respond("createUser", input, 500, "Failed to create user")
              /\ logs' = logs \cup {[msg |-> "insert_user_failed", id |-> nextId]}
              /\ UNCHANGED <<auditLogChan, enqueued>>
         [] input = "ok" ->
              /\ Respond("createUser", input, 201, "User created")
              /\ TrySend(auditLogEntry(nextId, Nil, "CREATE", "users", nextId))
    /\ UNCHANGED <<auditBatchChan, batchesSent>>
    /\ UNCHANGED pipeVars

\* createMenuHandler POST /api/menu (inline producer)
createMenuHandler(input) ==
    /\ nextId' = nextId + 1
    /\ CASE input = "bad_json" ->
              /\ Respond("createMenu", input, 400, "bind error")
              /\ UNCHANGED <<auditLogChan, enqueued, logs>>
         [] input = "service_error" ->
              /\ Respond("createMenu", input, 500, "Failed to create menu")
              /\ logs' = logs \cup {[msg |-> "create_menu_failed", id |-> nextId]}
              /\ UNCHANGED <<auditLogChan, enqueued>>
         [] input = "ok" ->
              /\ Respond("createMenu", input, 201, "Menu created")
              /\ TrySend(auditLogEntry(nextId, Nil, "CREATE", "menu", nextId))
    /\ UNCHANGED <<auditBatchChan, batchesSent>>
    /\ UNCHANGED pipeVars

\* createRoleHandler POST /api/roles (producer through logAuditEntry)
createRoleHandler(input, userID) ==
    /\ nextId' = nextId + 1
    /\ CASE input = "bad_json" ->
              /\ Respond("createRole", input, 400, "bind error")
              /\ UNCHANGED <<auditLogChan, enqueued, logs>>
         [] input = "service_error" ->
              /\ Respond("createRole", input, 500, "Failed to create role")
              /\ logs' = logs \cup {[msg |-> "create_role_failed", id |-> nextId]}
              /\ UNCHANGED <<auditLogChan, enqueued>>
         [] input = "ok" ->
              /\ logAuditEntry(userID, nextId, "CREATE", "roles", nextId)
              /\ Respond("createRole", input, 201, "Role created")
    /\ UNCHANGED <<auditBatchChan, batchesSent>>
    /\ UNCHANGED pipeVars

RoleIds == {1, 2}
UpdateInputs == {"bad_id", "bad_json", "query_error", "no_fields", "conflict",
                 "exec_error", "ok"}
DeleteInputs == {"bad_id", "query_error", "exec_error", "ok"}

\* updateRoleHandler PUT /api/roles/:id
updateRoleHandler(input, userID, r) ==
    /\ nextId' = nextId + 1
    /\ CASE input = "bad_id" ->
              /\ Respond("updateRole", input, 400, "Invalid ID")
              /\ UNCHANGED <<auditLogChan, enqueued, logs>>
         [] input = "bad_json" ->
              /\ Respond("updateRole", input, 400, "bind error")
              /\ UNCHANGED <<auditLogChan, enqueued, logs>>
         [] input \notin {"bad_id", "bad_json"} /\ roles[r] # "active" ->
              \* SELECT 1 FROM roles WHERE id = ? AND deleted_at IS NULL
              /\ Respond("updateRole", input, 404, "Role not found")
              /\ UNCHANGED <<auditLogChan, enqueued, logs>>
         [] input = "query_error" /\ roles[r] = "active" ->
              /\ Respond("updateRole", input, 500, "Database query failed")
              /\ logs' = logs \cup {[msg |-> "role_query_failed", id |-> nextId]}
              /\ UNCHANGED <<auditLogChan, enqueued>>
         [] input = "no_fields" /\ roles[r] = "active" ->
              /\ Respond("updateRole", input, 400, "No fields to update")
              /\ UNCHANGED <<auditLogChan, enqueued, logs>>
         [] input = "conflict" /\ roles[r] = "active" ->
              /\ Respond("updateRole", input, 409, "Role name already exists")
              /\ logs' = logs \cup {[msg |-> "update_role_failed", id |-> nextId]}
              /\ UNCHANGED <<auditLogChan, enqueued>>
         [] input = "exec_error" /\ roles[r] = "active" ->
              /\ Respond("updateRole", input, 500, "Update failed")
              /\ logs' = logs \cup {[msg |-> "update_role_failed", id |-> nextId]}
              /\ UNCHANGED <<auditLogChan, enqueued>>
         [] input = "ok" /\ roles[r] = "active" ->
              /\ logAuditEntry(userID, nextId, "UPDATE", "roles", r)
              /\ Respond("updateRole", input, 200, "Role updated")
    /\ UNCHANGED <<auditBatchChan, batchesSent>>
    /\ UNCHANGED pipeVars

\* deleteRoleHandler DELETE /api/roles/:id
deleteRoleHandler(input, userID, r) ==
    /\ nextId' = nextId + 1
    /\ CASE input = "bad_id" ->
              /\ Respond("deleteRole", input, 400, "Invalid ID")
              /\ UNCHANGED <<auditLogChan, enqueued, logs, roles>>
         [] input # "bad_id" /\ roles[r] = "absent" ->
              \* SELECT name, description FROM roles WHERE id = ? finds no row
              /\ Respond("deleteRole", input, 404, "Role not found")
              /\ UNCHANGED <<auditLogChan, enqueued, logs, roles>>
         [] input = "query_error" /\ roles[r] # "absent" ->
              /\ Respond("deleteRole", input, 500, "Database query failed")
              /\ logs' = logs \cup {[msg |-> "role_query_failed", id |-> nextId]}
              /\ UNCHANGED <<auditLogChan, enqueued, roles>>
         [] input = "exec_error" /\ roles[r] # "absent" ->
              /\ Respond("deleteRole", input, 500, "Soft delete failed")
              /\ logs' = logs \cup {[msg |-> "delete_role_failed", id |-> nextId]}
              /\ UNCHANGED <<auditLogChan, enqueued, roles>>
         [] input = "ok" /\ roles[r] # "absent" ->
              \* UPDATE ... WHERE id = ? AND deleted_at IS NULL; the number of
              \* affected rows is not looked at
              /\ roles' = [roles EXCEPT ![r] = "deleted"]
              /\ logAuditEntry(userID, nextId, "DELETE", "roles", r)
              /\ Respond("deleteRole", input, 200, "Role deleted")
    /\ UNCHANGED <<auditBatchChan, batchesSent>>
    /\ UNCHANGED <<auditStopCh, auditWorkerWG, pc, batch, batchEntries, batchTimer,
                   aged, mainPc, atStop, store, handed, returned>>

\* a producer that has several entries ready sends them as one batch

SendBatch ==
    /\ batchesSent < MaxBatches
    /\ Len(auditBatchChan) < BatchChanCap
    /\ auditBatchChan' = Append(auditBatchChan,
           [i \in 1 .. PreformedLen |->
               auditLogEntry(nextId + i - 1, Nil, "CREATE", "users", nextId + i - 1)])
    /\ nextId' = nextId + PreformedLen
    /\ batchesSent' = batchesSent + 1
    /\ UNCHANGED <<auditLogChan, enqueued, logs, responses>>
    /\ UNCHANGED pipeVars

\* a producer sends a batch that holds no entry
SendEmptyBatch ==
    /\ batchesSent < MaxBatches
    /\ Len(auditBatchChan) < BatchChanCap
    /\ auditBatchChan' = Append(auditBatchChan, <<>>)
    /\ batchesSent' = batchesSent + 1
    /\ UNCHANGED <<auditLogChan, enqueued, logs, responses, nextId>>
    /\ UNCHANGED pipeVars

\* producers keep sending batches that hold no entry, without end
KeepSendingBatches ==
    /\ Len(auditBatchChan) < BatchChanCap
    /\ auditBatchChan' = Append(auditBatchChan, <<>>)
    /\ UNCHANGED <<auditLogChan, enqueued, logs, responses, nextId, batchesSent>>
    /\ UNCHANGED pipeVars

\* ---- the committer ----

\* the row an INSERT INTO audit_logs writes for an entry
Row(entry) ==
    [id |-> entry.id, user_id |-> entry.UserID, event_type |-> entry.Event,
     table_name |-> entry.Table, record_id |-> entry.RecordID]

\* What the store does to one call of processAuditBatch on n entries:
\* begin/prepare/commit succeed or fail, ok is the set of positions whose
\* insert (stmt.Exec, or db.Exec on the fallback path) is accepted.
StoreOutcomes(n) ==
    [begin : BOOLEAN, prepare : BOOLEAN, commit : BOOLEAN, ok : SUBSET (1 .. n)]

StoreAccepts(n) ==
    {[begin |-> TRUE, prepare |-> TRUE, commit |-> TRUE, ok |-> 1 .. n]}

\* an independent insert that binds Table and Event in each other's place
processAuditLog_swapped(entry, accepted) ==
    [rows |-> IF accepted
              THEN SetToBag({[Row(entry) EXCEPT !.event_type = entry.Table,
                                                !.table_name = entry.Event]})
              ELSE EmptyBag,
     logs |-> {},
     attempts |-> <<[via |-> "db", id |-> entry.id]>>]

\* processAuditLog: one independent insert through entry.DB; the result of
\* Exec is discarded
processAuditLog(entry, accepted) ==
    [rows |-> IF accepted THEN SetToBag({Row(entry)}) ELSE EmptyBag,
     logs |-> {},
     attempts |-> <<[via |-> "db", id |-> entry.id]>>]

\* a fallback loop that gives up at the first insert the store rejects
RECURSIVE Fallback_stopAtFailure(_, _, _)
Fallback_stopAtFailure(entries, i, o) ==
    IF i > Len(entries)
    THEN [rows |-> EmptyBag, logs |-> {}, attempts |-> <<>>]
    ELSE LET one == processAuditLog(entries[i], i \in o.ok)
             rest == IF i \in o.ok
                     THEN Fallback_stopAtFailure(entries, i + 1, o)
                     ELSE [rows |-> EmptyBag, logs |-> {}, attempts |-> <<>>]
         IN  [rows |-> one.rows (+) rest.rows, logs |-> one.logs \cup rest.logs,
              attempts |-> one.attempts \o rest.attempts]

\* for _, entry := range entries { processAuditLog(entry) }
RECURSIVE Fallback(_, _, _)
Fallback(entries, i, o) ==
    IF i > Len(entries)
    THEN [rows |-> EmptyBag, logs |-> {}, attempts |-> <<>>]
    ELSE LET one == processAuditLog(entries[i], i \in o.ok)
             rest == Fallback(entries, i + 1, o)
         IN  [rows |-> one.rows (+) rest.rows, logs |-> one.logs \cup rest.logs,
              attempts |-> one.attempts \o rest.attempts]

\* an insert loop that leaves the batch at the first failed stmt.Exec
RECURSIVE ExecAll_abort(_, _, _)
ExecAll_abort(entries, i, o) ==
    IF i > Len(entries)
    THEN [rows |-> EmptyBag, logs |-> {}, attempts |-> <<>>]
    ELSE IF i \in o.ok
         THEN LET rest == ExecAll_abort(entries, i + 1, o)
              IN  [rows |-> SetToBag({Row(entries[i])}) (+) rest.rows,
                   logs |-> rest.logs,
                   attempts |-> <<[via |-> "tx", id |-> entries[i].id]>> \o rest.attempts]
         ELSE [rows |-> EmptyBag,
               logs |-> {[msg |-> "exec_failed", id |-> entries[i].id]},
               attempts |-> <<[via |-> "tx", id |-> entries[i].id]>>]

\* for _, entry := range entries { stmt.Exec(...) } inside the transaction
RECURSIVE ExecAll(_, _, _)
ExecAll(entries, i, o) ==
    IF i > Len(entries)
    THEN [rows |-> EmptyBag, logs |-> {}, attempts |-> <<>>]
    ELSE LET rest == ExecAll(entries, i + 1, o)
             try == <<[via |-> "tx", id |-> entries[i].id]>>
         IN  IF i \in o.ok
             THEN [rows |-> SetToBag({Row(entries[i])}) (+) rest.rows,
                   logs |-> rest.logs,
                   attempts |-> try \o rest.attempts]
             ELSE [rows |-> rest.rows,
                   logs |-> {[msg |-> "exec_failed", id |-> entries[i].id]}
                               \cup rest.logs,
                   attempts |-> try \o rest.attempts]

\* a committer that gives the batch up when Prepare fails
processAuditBatch_prepareAbort(entries, o) ==
    IF Len(entries) = 0
    THEN [rows |-> EmptyBag, logs |-> {}, attempts |-> <<>>, commits |-> 0,
          tx |-> "none", opened |-> 0]
    ELSE IF ~o.begin
    THEN LET f == Fallback(entries, 1, o)
         IN  [rows |-> f.rows,
              logs |-> {[msg |-> "begin_failed", id |-> entries[1].id]} \cup f.logs,
              attempts |-> f.attempts, commits |-> 0, tx |-> "none", opened |-> 0]
    ELSE IF ~o.prepare
    THEN [rows |-> EmptyBag,
          logs |-> {[msg |-> "prepare_failed", id |-> entries[1].id]},
          attempts |-> <<>>, commits |-> 0, tx |-> "rolled_back", opened |-> 1]
    ELSE LET x == ExecAll(entries, 1, o)
         IN  IF o.commit
             THEN [rows |-> x.rows, logs |-> x.logs, attempts |-> x.attempts,
                   commits |-> 1, tx |-> "committed", opened |-> 1]
             ELSE [rows |-> EmptyBag,
                   logs |-> x.logs \cup {[msg |-> "commit_failed", id |-> entries[1].id]},
                   attempts |-> x.attempts, commits |-> 1, tx |-> "rolled_back", opened |-> 1]

\* a committer that falls back to independent inserts when Commit fails
processAuditBatch_commitFallback(entries, o) ==
    IF Len(entries) = 0
    THEN [rows |-> EmptyBag, logs |-> {}, attempts |-> <<>>, commits |-> 0,
          tx |-> "none", opened |-> 0]
    ELSE IF ~o.begin
    THEN LET f == Fallback(entries, 1, o)
         IN  [rows |-> f.rows,
              logs |-> {[msg |-> "begin_failed", id |-> entries[1].id]} \cup f.logs,
              attempts |-> f.attempts, commits |-> 0, tx |-> "none", opened |-> 0]
    ELSE IF ~o.prepare
    THEN LET f == Fallback(entries, 1, o)
         IN  [rows |-> f.rows,
              logs |-> {[msg |-> "prepare_failed", id |-> entries[1].id]} \cup f.logs,
              attempts |-> f.attempts, commits |-> 0, tx |-> "rolled_back", opened |-> 1]
    ELSE LET x == ExecAll(entries, 1, o)
         IN  IF o.commit
             THEN [rows |-> x.rows, logs |-> x.logs, attempts |-> x.attempts,
                   commits |-> 1, tx |-> "committed", opened |-> 1]
             ELSE LET f == Fallback(entries, 1, o)
                  IN  [rows |-> f.rows,
                       logs |-> x.logs \cup
                                {[msg |-> "commit_failed", id |-> entries[1].id]},
                       attempts |-> x.attempts \o f.attempts, commits |-> 1,
                       tx |-> "rolled_back", opened |-> 1]

\* a committer without the deferred tx.Rollback(): a failed Prepare leaves
\* the transaction open
processAuditBatch_noDefer(entries, o) ==
    IF Len(entries) = 0
    THEN [rows |-> EmptyBag, logs |-> {}, attempts |-> <<>>, commits |-> 0,
          tx |-> "none", opened |-> 0]
    ELSE IF ~o.begin
    THEN LET f == Fallback(entries, 1, o)
         IN  [rows |-> f.rows,
              logs |-> {[msg |-> "begin_failed", id |-> entries[1].id]} \cup f.logs,
              attempts |-> f.attempts, commits |-> 0, tx |-> "none", opened |-> 0]
    ELSE IF ~o.prepare
    THEN LET f == Fallback(entries, 1, o)
         IN  [rows |-> f.rows,
              logs |-> {[msg |-> "prepare_failed", id |-> entries[1].id]} \cup f.logs,
              attempts |-> f.attempts, commits |-> 0, tx |-> "open", opened |-> 1]
    ELSE LET x == ExecAll(entries, 1, o)
         IN  IF o.commit
             THEN [rows |-> x.rows, logs |-> x.logs, attempts |-> x.attempts,
                   commits |-> 1, tx |-> "committed", opened |-> 1]
             ELSE [rows |-> EmptyBag,
                   logs |-> x.logs \cup {[msg |-> "commit_failed", id |-> entries[1].id]},
                   attempts |-> x.attempts, commits |-> 1, tx |-> "rolled_back", opened |-> 1]

\* processAuditBatch: the rows it adds to the store, what it logs, the inserts
\* it attempted in order (via the transaction's statement or via entry.DB),
\* the number of calls of tx.Commit, and what became of the transaction
processAuditBatch(entries, o) ==
    IF Len(entries) = 0
    THEN [rows |-> EmptyBag, logs |-> {}, attempts |-> <<>>, commits |-> 0,
          tx |-> "none", opened |-> 0]
    ELSE IF ~o.begin
    THEN LET f == Fallback(entries, 1, o)
         IN  [rows |-> f.rows,
              logs |-> {[msg |-> "begin_failed", id |-> entries[1].id]} \cup f.logs,
              attempts |-> f.attempts, commits |-> 0, tx |-> "none", opened |-> 0]
    ELSE IF ~o.prepare
    THEN \* defer tx.Rollback() runs when the function returns
         LET f == Fallback(entries, 1, o)
         IN  [rows |-> f.rows,
              logs |-> {[msg |-> "prepare_failed", id |-> entries[1].id]} \cup f.logs,
              attempts |-> f.attempts, commits |-> 0, tx |-> "rolled_back", opened |-> 1]
    ELSE LET x == ExecAll(entries, 1, o)
         IN  IF o.commit
             THEN [rows |-> x.rows, logs |-> x.logs, attempts |-> x.attempts,
                   commits |-> 1, tx |-> "committed", opened |-> 1]
             ELSE [rows |-> EmptyBag,
                   logs |-> x.logs \cup {[msg |-> "commit_failed", id |-> entries[1].id]},
                   attempts |-> x.attempts, commits |-> 1, tx |-> "rolled_back", opened |-> 1]

\* ---- lifecycle ----

HandedIds == UNION {Ids(h.entries) : h \in handed}

\* ids of the entries that were placed on auditLogChan so far
Accepted ==
    Ids(auditLogChan) \cup UNION {Ids(batch[w]) : w \in Workers}
        \cup UNION {Ids(h.entries) : h \in {g \in handed : g.trigger # "direct"}}

\* StartAuditLogger: Add(1) and go auditWorker(i) for each i, then the same
\* for auditBatchWorker; each auditWorker creates its batch and its timer
StartAuditLogger ==
    /\ mainPc = "init"
    /\ mainPc' = "running"
    /\ auditWorkerWG' = auditWorkerWG + numAuditWorkers + 1
    /\ pc' = [w \in AllWorkers |-> "select"]
    /\ batch' = [w \in Workers |-> <<>>]
    /\ batchTimer' = [w \in Workers |-> "armed"]
    /\ UNCHANGED <<auditLogChan, auditBatchChan, auditStopCh, batchEntries, aged,
                   atStop, store, logs, handed, responses, nextId, batchesSent, returned, enqueued, roles>>

\* StopAuditLogger, first statement: close(auditStopCh)
StopAuditLogger_close ==
    /\ mainPc = "running"
    /\ mainPc' = "waiting"
    /\ auditStopCh' = TRUE
    /\ atStop' = [queued |-> Accepted, batches |-> BatchIds(auditBatchChan),
                  returnedAt |-> 0]
    /\ UNCHANGED <<auditLogChan, auditBatchChan, auditWorkerWG, pc, batch,
                   batchEntries, batchTimer, aged, store, logs, handed, responses,
                   nextId, batchesSent, returned, enqueued, roles>>

\* a StopAuditLogger that does not wait for the WaitGroup
StopAuditLogger_nowait ==
    /\ mainPc = "waiting"
    /\ mainPc' = "stopped"
    /\ atStop' = [atStop EXCEPT !.returnedAt = nextId]
    /\ UNCHANGED <<auditLogChan, auditBatchChan, auditStopCh, auditWorkerWG, pc,
                   batch, batchEntries, batchTimer, aged, store, logs,
                   handed, responses, nextId, batchesSent, returned, enqueued, roles>>

\* StopAuditLogger, second statement: auditWorkerWG.Wait() returns
StopAuditLogger_wait ==
    /\ mainPc = "waiting"
    /\ auditWorkerWG = 0
    /\ mainPc' = "stopped"
    /\ atStop' = [atStop EXCEPT !.returnedAt = nextId]
    /\ UNCHANGED <<auditLogChan, auditBatchChan, auditStopCh, auditWorkerWG, pc,
                   batch, batchEntries, batchTimer, aged, store, logs,
                   handed, responses, nextId, batchesSent, returned, enqueued, roles>>

\* a StopAuditLogger that returns at once when auditStopCh is closed already
StopAuditLogger_idempotent ==
    /\ mainPc \in {"init", "running", "waiting", "stopped"}
    /\ IF auditStopCh
       THEN /\ mainPc' = "waiting"
            /\ UNCHANGED <<auditStopCh, atStop>>
       ELSE /\ mainPc' = "waiting"
            /\ auditStopCh' = TRUE
            /\ atStop' = [queued |-> Accepted, batches |-> BatchIds(auditBatchChan),
                          returnedAt |-> 0]
    /\ UNCHANGED <<auditLogChan, auditBatchChan, auditWorkerWG, pc, batch,
                   batchEntries, batchTimer, aged, store, logs, handed, responses,
                   nextId, batchesSent, returned, enqueued, roles>>

\* StopAuditLogger called at any time, by any caller: close(auditStopCh)
\* panics if the channel is closed already, and the panic ends the process
\* before auditWorkerWG.Wait() is reached
StopAuditLogger_anytime ==
    /\ mainPc \in {"init", "running", "waiting", "stopped"}
    /\ IF auditStopCh
       THEN /\ mainPc' = "panicked"
            /\ UNCHANGED <<auditStopCh, atStop>>
       ELSE /\ mainPc' = "waiting"
            /\ auditStopCh' = TRUE
            /\ atStop' = [queued |-> Accepted, batches |-> BatchIds(auditBatchChan),
                          returnedAt |-> 0]
    /\ UNCHANGED <<auditLogChan, auditBatchChan, auditWorkerWG, pc, batch,
                   batchEntries, batchTimer, aged, store, logs, handed, responses,
                   nextId, batchesSent, returned, enqueued, roles>>

\* ---- main ----

\* r.Run returns an error: log.Fatal writes the record and calls os.Exit(1);
\* the deferred StopAuditLogger does not run
main_RunFails ==
    /\ mainPc = "running"
    /\ mainPc' = "fatal"
    /\ logs' = logs \cup {[msg |-> "server_failed", id |-> 0]}
    /\ UNCHANGED <<auditLogChan, auditBatchChan, auditStopCh, auditWorkerWG, pc,
                   batch, batchEntries, batchTimer, aged, atStop, store, handed,
                   responses, nextId, batchesSent, returned, enqueued, roles>>

\* main returns once the deferred StopAuditLogger has returned
\* (StopAuditLogger_close from "running" is r.Run returning nil)
main_Return ==
    /\ mainPc = "stopped"
    /\ mainPc' = "exited"
    /\ UNCHANGED <<auditLogChan, auditBatchChan, auditStopCh, auditWorkerWG, pc,
                   batch, batchEntries, batchTimer, aged, atStop, store, logs,
                   handed, responses, nextId, batchesSent, returned, enqueued, roles>>

\* the process is alive: goroutines take steps
Alive == mainPc \notin {"fatal", "exited", "panicked"}

\* ---- time ----

\* One timer interval (100ms) passes: every running timer expires and sends
\* on its channel (the send is dropped when the channel still holds a value).
Expire(t) == IF t \in {"armed", "stale"} THEN "fired" ELSE t

\* batchTimer.Reset: re-arms the timer; a value already in the channel stays
Reset(t) == IF t \in {"fired", "stale"} THEN "stale" ELSE "armed"

\* <-batchTimer.C takes the value out of the channel
Drain(t) == IF t = "stale" THEN "armed" ELSE "drained"

TimerReady(t) == t \in {"fired", "stale"}

Tick ==
    /\ mainPc # "init"
    /\ \E w \in Workers :
           /\ pc[w] \notin {"done"}
           /\ \/ batchTimer[w] \in {"armed", "stale"}
              \/ (batch[w] # <<>> /\ ~aged[w])
    /\ batchTimer' = [w \in Workers |->
           IF pc[w] = "done" THEN batchTimer[w] ELSE Expire(batchTimer[w])]
    /\ aged' = [w \in Workers |->
           IF pc[w] = "done" THEN aged[w] ELSE batch[w] # <<>>]
    /\ UNCHANGED <<auditLogChan, auditBatchChan, auditStopCh, auditWorkerWG, pc,
                   batch, batchEntries, mainPc, atStop, store, logs, handed,
                   responses, nextId, batchesSent, returned, enqueued, roles>>

\* ---- auditWorker ----

Call(w, trigger, entries) ==
    handed' = handed \cup {[worker |-> w, trigger |-> trigger, entries |-> entries]}

\* the call of processAuditBatch(entries) by worker w has returned r under
\* the store's outcome o
Returned(w, entries, o, r) ==
    returned' = returned \cup
        {[worker |-> w, entries |-> entries, o |-> o, attempts |-> r.attempts,
          commits |-> r.commits, tx |-> r.tx, opened |-> r.opened,
          logs |-> r.logs]}

\* an auditWorker that flushes only once the batch exceeds the threshold
auditWorker_entry_late(w) ==
    /\ pc[w] = "select"
    /\ auditLogChan # <<>>
    /\ auditLogChan' = Tail(auditLogChan)
    /\ LET b == Append(batch[w], Head(auditLogChan))
       IN  /\ batch' = [batch EXCEPT ![w] = b]
           /\ aged' = [aged EXCEPT ![w] = IF batch[w] = <<>> THEN FALSE ELSE @]
           /\ IF Len(b) > BatchSize
              THEN /\ pc' = [pc EXCEPT ![w] = "flush_size"]
                   /\ Call(w, "size", b)
              ELSE UNCHANGED <<pc, handed>>
    /\ UNCHANGED <<auditBatchChan, auditStopCh, auditWorkerWG, batchEntries,
                   batchTimer, mainPc, atStop, store, logs, responses, nextId,
                   batchesSent, returned, enqueued, roles>>

\* auditWorkers that append to one batch shared by all of them
auditWorker_entry_shared(w) ==
    /\ pc[w] = "select"
    /\ auditLogChan # <<>>
    /\ auditLogChan' = Tail(auditLogChan)
    /\ LET b == Append(batch[0], Head(auditLogChan))
       IN  /\ batch' = [batch EXCEPT ![0] = b]
           /\ aged' = [aged EXCEPT ![0] = IF batch[0] = <<>> THEN FALSE ELSE @]
           /\ IF Len(b) >= BatchSize
              THEN /\ pc' = [pc EXCEPT ![w] = "flush_size"]
                   /\ Call(w, "size", b)
              ELSE UNCHANGED <<pc, handed>>
    /\ UNCHANGED <<auditBatchChan, auditStopCh, auditWorkerWG, batchEntries,
                   batchTimer, mainPc, atStop, store, logs, responses, nextId,
                   batchesSent, returned, enqueued, roles>>

\* case entry := <-auditLogChan
auditWorker_entry(w) ==
    /\ pc[w] = "select"
    /\ auditLogChan # <<>>
    /\ auditLogChan' = Tail(auditLogChan)
    /\ LET b == Append(batch[w], Head(auditLogChan))
       IN  /\ batch' = [batch EXCEPT ![w] = b]
           /\ aged' = [aged EXCEPT ![w] = IF batch[w] = <<>> THEN FALSE ELSE @]
           /\ IF Len(b) >= BatchSize
              THEN /\ pc' = [pc EXCEPT ![w] = "flush_size"]
                   /\ Call(w, "size", b)
              ELSE UNCHANGED <<pc, handed>>
    /\ UNCHANGED <<auditBatchChan, auditStopCh, auditWorkerWG, batchEntries,
                   batchTimer, mainPc, atStop, store, logs, responses, nextId,
                   batchesSent, returned, enqueued, roles>>

\* a timer case that resets the timer only after a flush
auditWorker_timer_noRearm(w) ==
    /\ pc[w] = "select"
    /\ TimerReady(batchTimer[w])
    /\ IF Len(batch[w]) > 0
       THEN /\ pc' = [pc EXCEPT ![w] = "flush_timer"]
            /\ Call(w, "timer", batch[w])
            /\ batchTimer' = [batchTimer EXCEPT ![w] = Drain(@)]
       ELSE /\ batchTimer' = [batchTimer EXCEPT ![w] = Drain(@)]
            /\ UNCHANGED <<pc, handed>>
    /\ UNCHANGED <<auditLogChan, auditBatchChan, auditStopCh, auditWorkerWG, batch,
                   batchEntries, aged, mainPc, atStop, store, logs, responses,
                   nextId, batchesSent, returned, enqueued, roles>>

\* case <-batchTimer.C
auditWorker_timer(w) ==
    /\ pc[w] = "select"
    /\ TimerReady(batchTimer[w])
    /\ IF Len(batch[w]) > 0
       THEN /\ pc' = [pc EXCEPT ![w] = "flush_timer"]
            /\ Call(w, "timer", batch[w])
            /\ batchTimer' = [batchTimer EXCEPT ![w] = Drain(@)]
       ELSE /\ batchTimer' = [batchTimer EXCEPT ![w] = Reset(Drain(@))]
            /\ UNCHANGED <<pc, handed>>
    /\ UNCHANGED <<auditLogChan, auditBatchChan, auditStopCh, auditWorkerWG, batch,
                   batchEntries, aged, mainPc, atStop, store, logs, responses,
                   nextId, batchesSent, returned, enqueued, roles>>

\* a worker that commits its own batch together with the pre-formed one
auditWorker_batch_merge(w) ==
    /\ pc[w] = "select"
    /\ auditBatchChan # <<>>
    /\ auditBatchChan' = Tail(auditBatchChan)
    /\ batchEntries' = [batchEntries EXCEPT ![w] = batch[w] \o Head(auditBatchChan)]
    /\ pc' = [pc EXCEPT ![w] = "flush_direct"]
    /\ Call(w, "direct", batch[w] \o Head(auditBatchChan))
    /\ UNCHANGED <<auditLogChan, auditStopCh, auditWorkerWG, batch, batchTimer,
                   aged, mainPc, atStop, store, logs, responses, nextId,
                   batchesSent, returned, enqueued, roles>>

\* case batchEntries := <-auditBatchChan
auditWorker_batch(w) ==
    /\ pc[w] = "select"
    /\ auditBatchChan # <<>>
    /\ auditBatchChan' = Tail(auditBatchChan)
    /\ batchEntries' = [batchEntries EXCEPT ![w] = Head(auditBatchChan)]
    /\ pc' = [pc EXCEPT ![w] = "flush_direct"]
    /\ Call(w, "direct", Head(auditBatchChan))
    /\ UNCHANGED <<auditLogChan, auditStopCh, auditWorkerWG, batch, batchTimer,
                   aged, mainPc, atStop, store, logs, responses, nextId,
                   batchesSent, returned, enqueued, roles>>

\* a stop case that ends with break: it leaves the select, not the loop
auditWorker_stop_break(w) ==
    /\ pc[w] = "select"
    /\ auditStopCh
    /\ IF Len(batch[w]) > 0
       THEN /\ pc' = [pc EXCEPT ![w] = "flush_timer"]
            /\ Call(w, "stop", batch[w])
       ELSE UNCHANGED <<pc, handed>>
    /\ UNCHANGED <<auditLogChan, auditBatchChan, auditStopCh, auditWorkerWG, batch,
                   batchEntries, batchTimer, aged, mainPc, atStop, store, logs,
                   responses, nextId, batchesSent, returned, enqueued, roles>>

\* a stop case that returns without looking at the local batch
auditWorker_stop_noFlush(w) ==
    /\ pc[w] = "select"
    /\ auditStopCh
    /\ pc' = [pc EXCEPT ![w] = "done"]
    /\ auditWorkerWG' = auditWorkerWG - 1
    /\ batchTimer' = [batchTimer EXCEPT ![w] = "none"]
    /\ UNCHANGED <<auditLogChan, auditBatchChan, auditStopCh, batch, batchEntries,
                   aged, mainPc, atStop, store, logs, handed, responses, nextId,
                   batchesSent, returned, enqueued, roles>>

\* case <-auditStopCh
auditWorker_stop(w) ==
    /\ pc[w] = "select"
    /\ auditStopCh
    /\ IF Len(batch[w]) > 0
       THEN /\ pc' = [pc EXCEPT ![w] = "flush_stop"]
            /\ Call(w, "stop", batch[w])
            /\ UNCHANGED <<auditWorkerWG, batchTimer>>
       ELSE /\ pc' = [pc EXCEPT ![w] = "done"]
            /\ auditWorkerWG' = auditWorkerWG - 1
            /\ batchTimer' = [batchTimer EXCEPT ![w] = "none"]
            /\ UNCHANGED handed
    /\ UNCHANGED <<auditLogChan, auditBatchChan, auditStopCh, batch, batchEntries,
                   aged, mainPc, atStop, store, logs, responses, nextId,
                   batchesSent, returned, enqueued, roles>>

\* the entries of the call of processAuditBatch that worker w is in
Inflight(w) ==
    IF pc[w] = "flush_direct" THEN batchEntries[w]
    ELSE IF pc[w] \in {"flush_size", "flush_timer", "flush_stop"} THEN batch[w]
    ELSE <<>>

\* an auditWorker that forgets batch = batch[:0] after the size flush
auditWorker_return_noReset(w, o) ==
    /\ pc[w] \in {"flush_size", "flush_timer", "flush_direct", "flush_stop"}
    /\ LET r == processAuditBatch(Inflight(w), o)
       IN  /\ store' = store (+) r.rows
           /\ logs' = logs \cup r.logs
           /\ Returned(w, Inflight(w), o, r)
    /\ CASE pc[w] = "flush_size" ->
              /\ batch' = batch
              /\ aged' = aged
              /\ batchTimer' = [batchTimer EXCEPT ![w] = Reset(@)]
              /\ pc' = [pc EXCEPT ![w] = "select"]
              /\ UNCHANGED <<batchEntries, auditWorkerWG>>
         [] pc[w] = "flush_timer" ->
              /\ batch' = [batch EXCEPT ![w] = <<>>]
              /\ aged' = [aged EXCEPT ![w] = FALSE]
              /\ batchTimer' = [batchTimer EXCEPT ![w] = Reset(@)]
              /\ pc' = [pc EXCEPT ![w] = "select"]
              /\ UNCHANGED <<batchEntries, auditWorkerWG>>
         [] pc[w] = "flush_direct" ->
              /\ batchEntries' = [batchEntries EXCEPT ![w] = <<>>]
              /\ pc' = [pc EXCEPT ![w] = "select"]
              /\ UNCHANGED <<batch, aged, batchTimer, auditWorkerWG>>
         [] pc[w] = "flush_stop" ->
              \* return: the goroutine's locals are gone, the deferred
              \* batchTimer.Stop() and auditWorkerWG.Done() run
              /\ batch' = [batch EXCEPT ![w] = <<>>]
              /\ aged' = [aged EXCEPT ![w] = FALSE]
              /\ batchTimer' = [batchTimer EXCEPT ![w] = "none"]
              /\ pc' = [pc EXCEPT ![w] = "done"]
              /\ auditWorkerWG' = auditWorkerWG - 1
              /\ UNCHANGED batchEntries
    /\ UNCHANGED <<auditLogChan, auditBatchChan, auditStopCh, mainPc, atStop,
                   handed, responses, nextId, batchesSent, enqueued, roles>>

\* an auditWorker that restarts its timer after committing a pre-formed batch
auditWorker_return_rearm(w, o) ==
    /\ pc[w] \in {"flush_size", "flush_timer", "flush_direct", "flush_stop"}
    /\ LET r == processAuditBatch(Inflight(w), o)
       IN  /\ store' = store (+) r.rows
           /\ logs' = logs \cup r.logs
           /\ Returned(w, Inflight(w), o, r)
    /\ CASE pc[w] = "flush_size" ->
              /\ batch' = [batch EXCEPT ![w] = <<>>]
              /\ aged' = [aged EXCEPT ![w] = FALSE]
              /\ batchTimer' = [batchTimer EXCEPT ![w] = Reset(@)]
              /\ pc' = [pc EXCEPT ![w] = "select"]
              /\ UNCHANGED <<batchEntries, auditWorkerWG>>
         [] pc[w] = "flush_timer" ->
              /\ batch' = [batch EXCEPT ![w] = <<>>]
              /\ aged' = [aged EXCEPT ![w] = FALSE]
              /\ batchTimer' = [batchTimer EXCEPT ![w] = Reset(@)]
              /\ pc' = [pc EXCEPT ![w] = "select"]
              /\ UNCHANGED <<batchEntries, auditWorkerWG>>
         [] pc[w] = "flush_direct" ->
              /\ batchEntries' = [batchEntries EXCEPT ![w] = <<>>]
              /\ pc' = [pc EXCEPT ![w] = "select"]
              /\ batchTimer' = [batchTimer EXCEPT ![w] = "armed"]
              /\ UNCHANGED <<batch, aged, auditWorkerWG>>
         [] pc[w] = "flush_stop" ->
              \* return: the goroutine's locals are gone, the deferred
              \* batchTimer.Stop() and auditWorkerWG.Done() run
              /\ batch' = [batch EXCEPT ![w] = <<>>]
              /\ aged' = [aged EXCEPT ![w] = FALSE]
              /\ batchTimer' = [batchTimer EXCEPT ![w] = "none"]
              /\ pc' = [pc EXCEPT ![w] = "done"]
              /\ auditWorkerWG' = auditWorkerWG - 1
              /\ UNCHANGED batchEntries
    /\ UNCHANGED <<auditLogChan, auditBatchChan, auditStopCh, mainPc, atStop,
                   handed, responses, nextId, batchesSent, enqueued, roles>>

\* processAuditBatch returns to auditWorker, which goes on after the call
auditWorker_return(w, o) ==
    /\ pc[w] \in {"flush_size", "flush_timer", "flush_direct", "flush_stop"}
    /\ LET r == processAuditBatch(Inflight(w), o)
       IN  /\ store' = store (+) r.rows
           /\ logs' = logs \cup r.logs
           /\ Returned(w, Inflight(w), o, r)
    /\ CASE pc[w] = "flush_size" ->
              /\ batch' = [batch EXCEPT ![w] = <<>>]
              /\ aged' = [aged EXCEPT ![w] = FALSE]
              /\ batchTimer' = [batchTimer EXCEPT ![w] = Reset(@)]
              /\ pc' = [pc EXCEPT ![w] = "select"]
              /\ UNCHANGED <<batchEntries, auditWorkerWG>>
         [] pc[w] = "flush_timer" ->
              /\ batch' = [batch EXCEPT ![w] = <<>>]
              /\ aged' = [aged EXCEPT ![w] = FALSE]
              /\ batchTimer' = [batchTimer EXCEPT ![w] = Reset(@)]
              /\ pc' = [pc EXCEPT ![w] = "select"]
              /\ UNCHANGED <<batchEntries, auditWorkerWG>>
         [] pc[w] = "flush_direct" ->
              /\ batchEntries' = [batchEntries EXCEPT ![w] = <<>>]
              /\ pc' = [pc EXCEPT ![w] = "select"]
              /\ UNCHANGED <<batch, aged, batchTimer, auditWorkerWG>>
         [] pc[w] = "flush_stop" ->
              \* return: the goroutine's locals are gone, the deferred
              \* batchTimer.Stop() and auditWorkerWG.Done() run
              /\ batch' = [batch EXCEPT ![w] = <<>>]
              /\ aged' = [aged EXCEPT ![w] = FALSE]
              /\ batchTimer' = [batchTimer EXCEPT ![w] = "none"]
              /\ pc' = [pc EXCEPT ![w] = "done"]
              /\ auditWorkerWG' = auditWorkerWG - 1
              /\ UNCHANGED batchEntries
    /\ UNCHANGED <<auditLogChan, auditBatchChan, auditStopCh, mainPc, atStop,
                   handed, responses, nextId, batchesSent, enqueued, roles>>

\* ---- auditBatchWorker ----

\* case batch := <-auditBatchChan
auditBatchWorker_batch ==
    /\ pc[BatchWorker] = "select"
    /\ auditBatchChan # <<>>
    /\ auditBatchChan' = Tail(auditBatchChan)
    /\ batchEntries' = [batchEntries EXCEPT ![BatchWorker] = Head(auditBatchChan)]
    /\ pc' = [pc EXCEPT ![BatchWorker] = "flush_direct"]
    /\ Call(BatchWorker, "direct", Head(auditBatchChan))
    /\ UNCHANGED <<auditLogChan, auditStopCh, auditWorkerWG, batch, batchTimer,
                   aged, mainPc, atStop, store, logs, responses, nextId,
                   batchesSent, returned, enqueued, roles>>

\* case <-auditStopCh
auditBatchWorker_stop ==
    /\ pc[BatchWorker] = "select"
    /\ auditStopCh
    /\ pc' = [pc EXCEPT ![BatchWorker] = "done"]
    /\ auditWorkerWG' = auditWorkerWG - 1
    /\ UNCHANGED <<auditLogChan, auditBatchChan, auditStopCh, batch, batchEntries,
                   batchTimer, aged, mainPc, atStop, store, logs, handed,
                   responses, nextId, batchesSent, returned, enqueued, roles>>

\* processAuditBatch returns to auditBatchWorker
auditBatchWorker_return(o) ==
    /\ pc[BatchWorker] = "flush_direct"
    /\ LET r == processAuditBatch(batchEntries[BatchWorker], o)
       IN  /\ store' = store (+) r.rows
           /\ logs' = logs \cup r.logs
           /\ Returned(BatchWorker, batchEntries[BatchWorker], o, r)
    /\ batchEntries' = [batchEntries EXCEPT ![BatchWorker] = <<>>]
    /\ pc' = [pc EXCEPT ![BatchWorker] = "select"]
    /\ UNCHANGED <<auditLogChan, auditBatchChan, auditStopCh, auditWorkerWG, batch,
                   batchTimer, aged, mainPc, atStop, handed, responses, nextId,
                   batchesSent, enqueued, roles>>

\* ---- specification ----

Init ==
    /\ auditLogChan = <<>>
    /\ auditBatchChan = <<>>
    /\ auditStopCh = FALSE
    /\ auditWorkerWG = 0
    /\ pc = [w \in AllWorkers |-> "unstarted"]
    /\ batch = [w \in Workers |-> <<>>]
    /\ batchEntries = [w \in AllWorkers |-> <<>>]
    /\ batchTimer = [w \in Workers |-> "none"]
    /\ aged = [w \in Workers |-> FALSE]
    /\ mainPc = "init"
    /\ atStop = [queued |-> {}, batches |-> {}, returnedAt |-> 0]
    /\ store = EmptyBag
    /\ logs = {}
    /\ handed = {}
    /\ returned = {}
    /\ enqueued = {}
    /\ roles = [r \in RoleIds |-> IF r = 1 THEN "active" ELSE "absent"]
    /\ responses = {}
    /\ nextId = 1
    /\ batchesSent = 0

\* The steps of the worker pool against a store that accepts every call.
WorkersAccepted ==
    \/ \E w \in Workers : auditWorker_entry(w)
    \/ \E w \in Workers : auditWorker_batch(w)
    \/ \E w \in Workers : auditWorker_stop(w)
    \/ \E w \in Workers : \E o \in StoreAccepts(Len(Inflight(w))) :
           auditWorker_return(w, o)
    \/ auditBatchWorker_batch
    \/ auditBatchWorker_stop
    \/ \E o \in StoreAccepts(Len(batchEntries[BatchWorker])) :
           auditBatchWorker_return(o)

\* Spec: the pipeline with its timers, fed by createUserHandler and by
\* pre-formed batches.
Next ==
    \/ (nextId <= CoreEvents /\ createUserHandler("ok"))
    \/ StartAuditLogger
    \/ StopAuditLogger_close
    \/ StopAuditLogger_wait
    \/ (nextId <= CoreEvents /\ SendBatch)
    \/ Tick
    \/ \E w \in Workers : auditWorker_timer(w)
    \/ WorkersAccepted

Spec == Init /\ [][Next]_vars

\* SpecProducers: every producer and pre-formed batches, within one timer
\* interval (no timer fires).
NextProducers ==
    \/ (nextId <= CoreEvents /\ createUserHandler("ok"))
    \/ (nextId <= CoreEvents /\ createMenuHandler("ok"))
    \/ \E u \in ContextUsers : (nextId <= CoreEvents /\ createRoleHandler("ok", u))
    \/ (nextId <= CoreEvents /\ SendBatch)
    \/ StartAuditLogger
    \/ StopAuditLogger_close
    \/ StopAuditLogger_wait
    \/ WorkersAccepted

SpecProducers == Init /\ [][NextProducers]_vars

\* SpecHttp: the request handlers on every input, against a store that may
\* fail any call.
NextHttp ==
    \/ \E input \in UserInputs : (nextId <= CoreEvents /\ createUserHandler(input))
    \/ \E input \in RoleInputs, u \in ContextUsers :
           (nextId <= CoreEvents /\ createRoleHandler(input, u))
    \/ StartAuditLogger
    \/ \E w \in Workers : auditWorker_entry(w)
    \/ \E w \in Workers : \E o \in StoreOutcomes(Len(Inflight(w))) :
           auditWorker_return(w, o)

SpecHttp == Init /\ [][NextHttp]_vars

\* SpecScenario: createUserHandler enqueues, no timer fires, the pipeline is
\* stopped.
NextScenario ==
    \/ (nextId <= ScenarioEvents /\ createUserHandler("ok"))
    \/ StartAuditLogger
    \/ StopAuditLogger_close
    \/ StopAuditLogger_wait
    \/ \E w \in Workers : auditWorker_entry(w)
    \/ \E w \in Workers : auditWorker_stop(w)
    \/ \E w \in Workers : \E o \in StoreAccepts(Len(Inflight(w))) :
           auditWorker_return(w, o)
    \/ auditBatchWorker_stop

SpecScenario == Init /\ [][NextScenario]_vars

\* SpecStore: the workers against a store that may fail Begin, Prepare,
\* Commit and any single insert; no timer fires.
NextStore ==
    \/ (nextId <= CoreEvents /\ createUserHandler("ok"))
    \/ StartAuditLogger
    \/ StopAuditLogger_close
    \/ StopAuditLogger_wait
    \/ \E w \in Workers : auditWorker_entry(w)
    \/ \E w \in Workers : auditWorker_stop(w)
    \/ \E w \in Workers : \E o \in StoreOutcomes(Len(Inflight(w))) :
           auditWorker_return(w, o)
    \/ auditBatchWorker_stop

SpecStore == Init /\ [][NextStore]_vars

\* SpecMain: the whole of main, from StartAuditLogger to the end of the
\* process; goroutines step only while the process is alive.
NextMain ==
    \/ StartAuditLogger
    \/ main_RunFails
    \/ StopAuditLogger_close
    \/ StopAuditLogger_wait
    \/ main_Return
    \/ (Alive /\ nextId <= CoreEvents /\ createUserHandler("ok"))
    \/ \E w \in Workers : (Alive /\ auditWorker_entry(w))
    \/ \E w \in Workers : (Alive /\ auditWorker_stop(w))
    \/ \E w \in Workers : \E o \in StoreAccepts(Len(Inflight(w))) :
           (Alive /\ auditWorker_return(w, o))
    \/ (Alive /\ auditBatchWorker_stop)

SpecMain == Init /\ [][NextMain]_vars

\* SpecIdle: a running pipeline whose timers fire, fed with few entries and
\* with empty pre-formed batches, against a store that may fail any call.
NextIdle ==
    \/ (nextId <= LiveEvents /\ createUserHandler("ok"))
    \/ SendEmptyBatch
    \/ StartAuditLogger
    \/ Tick
    \/ \E w \in Workers : auditWorker_entry(w)
    \/ \E w \in Workers : auditWorker_timer(w)
    \/ \E w \in Workers : auditWorker_batch(w)
    \/ \E w \in Workers : \E o \in StoreOutcomes(Len(Inflight(w))) :
           auditWorker_return(w, o)
    \/ auditBatchWorker_batch
    \/ \E o \in StoreOutcomes(Len(batchEntries[BatchWorker])) :
           auditBatchWorker_return(o)

SpecIdle == Init /\ [][NextIdle]_vars

\* SpecRoles: the handlers that change and delete roles, on every input.
NextRoles ==
    \/ \E input \in UpdateInputs, u \in ContextUsers, r \in RoleIds :
           (nextId <= CoreEvents /\ updateRoleHandler(input, u, r))
    \/ \E input \in DeleteInputs, u \in ContextUsers, r \in RoleIds :
           (nextId <= CoreEvents /\ deleteRoleHandler(input, u, r))
    \/ StartAuditLogger
    \/ \E w \in Workers : auditWorker_entry(w)
    \/ \E w \in Workers : \E o \in StoreAccepts(Len(Inflight(w))) :
           auditWorker_return(w, o)

SpecRoles == Init /\ [][NextRoles]_vars

\* SpecStop: StopAuditLogger called at any time and any number of times.
NextStop ==
    \/ StartAuditLogger
    \/ StopAuditLogger_anytime
    \/ StopAuditLogger_wait
    \/ (Alive /\ nextId <= CoreEvents /\ createUserHandler("ok"))
    \/ \E w \in Workers : (Alive /\ auditWorker_entry(w))
    \/ \E w \in Workers : (Alive /\ auditWorker_stop(w))
    \/ \E w \in Workers : \E o \in StoreAccepts(Len(Inflight(w))) :
           (Alive /\ auditWorker_return(w, o))
    \/ (Alive /\ auditBatchWorker_stop)

SpecStop == Init /\ [][NextStop]_vars

\* SpecLive: the scheduling the runtime gives.  A select whose stop case is
\* ready chooses it with positive probability every time it is reached
\* (strong fairness); a call into the store returns; a Wait on a zero
\* WaitGroup returns.
Fairness ==
    /\ \A w \in Workers : SF_vars(auditWorker_stop(w))
    /\ \A w \in Workers :
          WF_vars(\E o \in StoreAccepts(Len(Inflight(w))) : auditWorker_return(w, o))
    /\ SF_vars(auditBatchWorker_stop)
    /\ WF_vars(\E o \in StoreAccepts(Len(batchEntries[BatchWorker])) :
                  auditBatchWorker_return(o))
    /\ WF_vars(StopAuditLogger_wait)

NextLive ==
    \/ (nextId <= LiveEvents /\ createUserHandler("ok"))
    \/ (nextId <= LiveEvents /\ SendBatch)
    \/ StartAuditLogger
    \/ StopAuditLogger_close
    \/ StopAuditLogger_wait
    \/ Tick
    \/ \E w \in Workers : auditWorker_timer(w)
    \/ WorkersAccepted

SpecLive == Init /\ [][NextLive]_vars /\ Fairness

\* SpecProgress: a pipeline that is started and never stopped.  main calls
\* StartAuditLogger unconditionally; time passes; a select that is reached
\* again and again with a case ready chooses that case at some point
\* (strong fairness); a call into the store returns.  Every pre-formed
\* batch is left to the auditWorkers: auditBatchWorker takes none of them
\* off their hands.
FairnessProgress ==
    /\ WF_vars(StartAuditLogger)
    /\ WF_vars(Tick)
    /\ SF_vars(\E w \in Workers : auditWorker_entry(w))
    /\ \A w \in Workers : SF_vars(auditWorker_timer(w))
    /\ \A w \in Workers :
          WF_vars(\E o \in StoreAccepts(Len(Inflight(w))) : auditWorker_return(w, o))

NextProgress ==
    \/ (nextId <= LiveEvents /\ createUserHandler("ok"))
    \/ KeepSendingBatches
    \/ StartAuditLogger
    \/ Tick
    \/ \E w \in Workers : auditWorker_entry(w)
    \/ \E w \in Workers : auditWorker_timer(w)
    \/ \E w \in Workers : auditWorker_batch(w)
    \/ \E w \in Workers : \E o \in StoreAccepts(Len(Inflight(w))) :
           auditWorker_return(w, o)

SpecProgress == Init /\ [][NextProgress]_vars /\ FairnessProgress

\* ---- properties ----

InCommit(w) == pc[w] \in {"flush_size", "flush_timer", "flush_direct", "flush_stop"}

\* a step of a request handler that reaches its send on auditLogChan
IsRequest == nextId' = nextId + 1 /\ batchesSent' = batchesSent
Rejected == \E l \in logs' \ logs : l.msg = "queue_full" /\ l.id = nextId
NoUser == \E l \in logs' \ logs : l.msg = "no_user_id"

\* C1: once StopAuditLogger has returned, every entry that was on
\* auditLogChan or in a local batch when it was called has been handed to
\* processAuditBatch; none is left in auditLogChan or in a local batch.
C1_ShutdownDrains ==
    mainPc = "stopped" =>
        /\ atStop.queued \subseteq HandedIds
        /\ atStop.queued \cap Ids(auditLogChan) = {}
        /\ \A w \in Workers : atStop.queued \cap Ids(batch[w]) = {}

\* C2: in every state a producer's submit step can be taken at once: it
\* waits for no worker, whether the workers are unstarted, running, inside
\* a commit or stopped.
C2_EnqueueNeverBlocks ==
    /\ ENABLED createUserHandler("ok")
    /\ ENABLED createMenuHandler("ok")
    /\ \A u \in ContextUsers : ENABLED createRoleHandler("ok", u)

\* a submit was rejected at once while the pipeline was running and the
\* queue is still full
C2_Witness ==
    /\ Len(auditLogChan) = QueueCap
    /\ mainPc = "running"
    /\ \E l \in logs : l.msg = "queue_full"

\* C3: auditLogChan never holds more than QueueCap entries; a send on a full
\* channel is rejected and leaves the channel and every local batch
\* unchanged; a send on a channel with free space appends the entry at the
\* tail.
C3_QueueFullRejection ==
    /\ [](Len(auditLogChan) <= QueueCap)
    /\ [][IsRequest /\ ~NoUser =>
            IF Len(auditLogChan) >= QueueCap
            THEN /\ Rejected
                 /\ auditLogChan' = auditLogChan
                 /\ batch' = batch
                 /\ nextId \notin Ids(auditLogChan')
            ELSE /\ ~Rejected
                 /\ Len(auditLogChan') = Len(auditLogChan) + 1
                 /\ SubSeq(auditLogChan', 1, Len(auditLogChan)) = auditLogChan
                 /\ auditLogChan'[Len(auditLogChan')].id = nextId]_vars

\* QueueCap sends were accepted with no worker dequeuing, the next one was
\* rejected
C3_Witness ==
    /\ Len(auditLogChan) = QueueCap
    /\ Ids(auditLogChan) = 1 .. QueueCap
    /\ handed = {}
    /\ \A w \in Workers : batch[w] = <<>>
    /\ [msg |-> "queue_full", id |-> QueueCap + 1] \in logs

\* C4: a request whose mutation completed and whose queue has free space has
\* its entry enqueued, with or without a user id.
C4_DroppedOnlyWhenFull ==
    [][IsRequest /\ Len(auditLogChan) < QueueCap =>
           /\ Len(auditLogChan') = Len(auditLogChan) + 1
           /\ auditLogChan'[Len(auditLogChan')].id = nextId]_vars

\* C5: two runs of the same handler on the same request get the same status
\* and body, whatever the queue and the store did.
C5_ResponseIndependent ==
    \A a, b \in responses :
        (a.handler = b.handler /\ a.input = b.input) =>
            (a.status = b.status /\ a.body = b.body)

StoreFailures == {"begin_failed", "prepare_failed", "exec_failed", "commit_failed"}

\* createUserHandler answered 201 with the entry queued, and with the entry
\* rejected, and a commit of queued entries failed in the store
C5_Witness ==
    /\ [handler |-> "createUser", input |-> "ok", status |-> 201,
        body |-> "User created"] \in responses
    /\ [handler |-> "createRole", input |-> "ok", status |-> 201,
        body |-> "Role created"] \in responses
    /\ \E l \in logs : l.msg = "queue_full"
    /\ \E l \in logs : l.msg \in StoreFailures
    /\ HandedIds # {}

SizeBatches == {h \in handed : h.trigger = "size"}
RestBatches == {h \in handed : h.trigger # "size"}

\* C6: a local batch that reaches BatchSize is handed to processAuditBatch at
\* once, once, with exactly BatchSize entries, and is empty afterwards; a
\* worker waiting on its select holds fewer than BatchSize entries and no
\* local batch handed over is longer than BatchSize.
C6_SizeTriggeredFlush ==
    /\ [](\A w \in Workers : pc[w] = "select" => Len(batch[w]) < BatchSize)
    /\ [](\A h \in handed :
            /\ h.trigger \in {"size", "timer", "stop"} => Len(h.entries) <= BatchSize
            /\ h.trigger = "size" => Len(h.entries) = BatchSize)
    /\ [](\A g, h \in handed : g # h => Ids(g.entries) \cap Ids(h.entries) = {})
    /\ [][\A w \in Workers :
            /\ (Len(batch[w]) < BatchSize /\ Len(batch'[w]) >= BatchSize) =>
                  /\ pc'[w] = "flush_size"
                  /\ [worker |-> w, trigger |-> "size", entries |-> batch'[w]] \notin handed
                  /\ handed' = handed \cup
                        {[worker |-> w, trigger |-> "size", entries |-> batch'[w]]}
            /\ (pc[w] = "flush_size" /\ pc'[w] # "flush_size") =>
                  /\ pc'[w] = "select"
                  /\ batch'[w] = <<>>
                  /\ handed' = handed]_vars

\* a worker flushed on size and is back at its select with an empty batch
C6_Witness ==
    \E h \in SizeBatches :
        /\ Len(h.entries) = BatchSize
        /\ pc[h.worker] = "select"
        /\ batch[h.worker] = <<>>

\* ScenarioEvents entries were enqueued, then the pipeline was stopped and
\* StopAuditLogger has returned
ScenarioDone ==
    /\ mainPc = "stopped"
    /\ atStop.queued = 1 .. ScenarioEvents

\* C7: after 2 * BatchSize + 1 entries and a stop, with no timer firing, the
\* committer has received exactly two batches of BatchSize on the size
\* trigger and the one remaining entry as one batch.
C7_TwoFullOneRest ==
    ScenarioDone =>
        /\ Cardinality(SizeBatches) = 2
        /\ \A h \in SizeBatches : Len(h.entries) = BatchSize
        /\ Cardinality(RestBatches) = 1
        /\ \A h \in RestBatches : Len(h.entries) = ScenarioEvents - 2 * BatchSize

\* C7 as amended: at most two batches of exactly BatchSize on the size
\* trigger, at most one shorter batch per worker at its stop flush, and
\* every enqueued entry is in exactly one of these batches or still on
\* auditLogChan.
C7_PerWorkerBatches ==
    ScenarioDone =>
        /\ Cardinality(SizeBatches) <= 2
        /\ \A h \in SizeBatches : Len(h.entries) = BatchSize
        /\ \A h \in RestBatches :
              /\ h.trigger = "stop"
              /\ Len(h.entries) >= 1
              /\ Len(h.entries) < BatchSize
        /\ \A w \in Workers : Cardinality({h \in RestBatches : h.worker = w}) <= 1
        /\ \A g, h \in handed : g # h => Ids(g.entries) \cap Ids(h.entries) = {}
        /\ HandedIds \cup Ids(auditLogChan) = 1 .. ScenarioEvents
        /\ HandedIds \cap Ids(auditLogChan) = {}

\* the entries were spread over the workers: one full batch and three rests
C7_Witness ==
    /\ ScenarioDone
    /\ Cardinality(SizeBatches) = 1
    /\ Cardinality(RestBatches) = 3

\* C8: every entry of a local batch that the size trigger did not flush is
\* flushed at the worker's timer branch, and the timer has fired once a full
\* interval has passed since the first such entry arrived.
C8_FlushedAtTimer ==
    /\ \A h \in handed : h.trigger \notin {"size", "direct"} => h.trigger = "timer"
    /\ \A w \in Workers :
          (pc[w] = "select" /\ aged[w]) => TimerReady(batchTimer[w])

\* C8 as amended: an entry the size trigger did not flush is flushed by the
\* timer branch or, when the worker takes the stop branch first, by the stop
\* branch; the timer is not restarted while entries wait, so it has fired
\* once a full interval has passed since the first of them arrived; the
\* timer branch hands over the whole local batch and empties it.
C8_TimerOrStopFlush ==
    /\ [](\A w \in Workers :
            (pc[w] \in {"select", "flush_direct"} /\ aged[w]) =>
                TimerReady(batchTimer[w]))
    /\ [](\A h \in handed :
            h.trigger \in {"timer", "stop"} =>
                (Len(h.entries) >= 1 /\ Len(h.entries) < BatchSize))
    /\ [][\A w \in Workers :
            /\ (pc[w] = "select" /\ pc'[w] = "flush_timer") =>
                  /\ TimerReady(batchTimer[w])
                  /\ batch[w] # <<>>
                  /\ handed' = handed \cup
                        {[worker |-> w, trigger |-> "timer", entries |-> batch[w]]}
            /\ (pc[w] = "flush_timer" /\ pc'[w] # "flush_timer") =>
                  /\ pc'[w] = "select"
                  /\ batch'[w] = <<>>
            /\ (batch[w] # <<>> /\ batch'[w] = <<>>) =>
                  pc[w] \in {"flush_size", "flush_timer", "flush_stop"}]_vars

\* a single entry waited a full interval and was committed by the timer
\* branch as a batch of one
C8_Witness ==
    \E h \in handed :
        /\ h.trigger = "timer"
        /\ Len(h.entries) = 1
        /\ BagIn(Row(h.entries[1]), store)
        /\ pc[h.worker] = "select"

\* C9: once StopAuditLogger has returned, every worker it started has
\* terminated and no call of processAuditBatch is in progress.
C9_StopWaitsForWorkers ==
    mainPc = "stopped" =>
        \A w \in AllWorkers : pc[w] = "done" /\ ~InCommit(w)

\* StopAuditLogger returned after a worker flushed its batch on the stop
\* branch and after the batch worker committed a pre-formed batch
C9_Witness ==
    /\ mainPc = "stopped"
    /\ \E h \in handed : h.trigger = "stop"
    /\ \E h \in handed : h.worker = BatchWorker

\* C10: once auditStopCh is closed, every worker exits and StopAuditLogger
\* returns, also when entries and pre-formed batches keep arriving.
C10_ShutdownTerminates ==
    auditStopCh ~> (mainPc = "stopped" /\ \A w \in AllWorkers : pc[w] = "done")

\* StopAuditLogger returned although an entry was enqueued after the stop
\* signal
C10_Witness ==
    /\ mainPc = "stopped"
    /\ \E i \in 1 .. Len(auditLogChan) : auditLogChan[i].id \notin atStop.queued

\* the calls of processAuditBatch worker w made on its stop branch
StopCalls(w) == {h \in handed : h.worker = w /\ h.trigger = "stop"}

NewCalls(w) == {h \in handed' \ handed : h.worker = w}

\* C11: an auditWorker that takes the stop branch hands its local batch to
\* processAuditBatch exactly once if the batch is non-empty and not at all
\* if it is empty, receives nothing in that step, and then terminates: it
\* makes no further call, receives no further entry or pre-formed batch,
\* and never leaves its final position.
C11_StopBranchFlushesOnce ==
    [][\A w \in Workers :
          /\ (\E h \in NewCalls(w) : h.trigger = "stop") =>
                 /\ pc[w] = "select" /\ pc'[w] = "flush_stop"
                 /\ batch[w] # <<>>
                 /\ StopCalls(w) = {}
                 /\ handed' = handed \cup
                        {[worker |-> w, trigger |-> "stop", entries |-> batch[w]]}
          /\ (pc[w] = "select" /\ pc'[w] = "done") =>
                 batch[w] = <<>> /\ handed' = handed
          /\ (pc[w] = "select" /\ pc'[w] \in {"flush_stop", "done"}) =>
                 /\ auditStopCh
                 /\ auditLogChan' = auditLogChan
                 /\ auditBatchChan' = auditBatchChan
                 /\ batch'[w] = batch[w]
          /\ pc[w] = "flush_stop" =>
                 /\ pc'[w] \in {"flush_stop", "done"}
                 /\ NewCalls(w) = {}
                 /\ pc'[w] = "done" =>
                        /\ auditLogChan' = auditLogChan
                        /\ auditBatchChan' = auditBatchChan
          /\ pc[w] = "done" =>
                 /\ pc'[w] = "done"
                 /\ NewCalls(w) = {}
                 /\ batch'[w] = <<>> /\ batchEntries'[w] = <<>>
       ]_vars

\* one worker has terminated after its stop flush, another has terminated
\* with an empty batch and no flush, and entries are still on auditLogChan
C11_Witness ==
    \E w, v \in Workers :
        /\ pc[w] = "done" /\ StopCalls(w) # {}
        /\ pc[v] = "done" /\ StopCalls(v) = {}
        /\ auditLogChan # <<>>

\* one attempt per entry, in the order of the batch, all through path via
AttemptsOf(entries, via) ==
    [i \in 1 .. Len(entries) |-> [via |-> via, id |-> entries[i].id]]

\* of the entries of call r, the store holds one row for each position in
\* ok and none for the others
StoredExactly(r, ok) ==
    \A i \in 1 .. Len(r.entries) :
        CopiesIn(Row(r.entries[i]), store) = IF i \in ok THEN 1 ELSE 0

\* C12: when db.Begin fails, processAuditBatch attempts one independent
\* insert per entry, in batch order, whatever the earlier inserts returned,
\* and the store then holds exactly the entries whose insert was accepted.
C12_BeginFailureFallback ==
    \A r \in returned :
        ~r.o.begin =>
            /\ r.attempts = AttemptsOf(r.entries, "db")
            /\ r.commits = 0
            /\ StoredExactly(r, r.o.ok)

\* a call whose Begin failed, whose first independent insert was rejected
\* and whose second was accepted
C12_Witness ==
    \E r \in returned :
        /\ ~r.o.begin
        /\ Len(r.entries) >= 2
        /\ 1 \notin r.o.ok /\ 2 \in r.o.ok
        /\ StoredExactly(r, r.o.ok)

\* the log records of call r that name the failed insert of entry id
InsertFailureLogged(r, id) ==
    \E l \in r.logs : l.msg = "exec_failed" /\ l.id = id

\* C13: every failure inside processAuditBatch is logged: a failed Begin,
\* a failed Prepare, a failed Commit, and every rejected insert, the
\* independent inserts of the fallback path included.
C13_EveryFailureLogged ==
    \A r \in returned :
        /\ ~r.o.begin => \E l \in r.logs : l.msg = "begin_failed"
        /\ (r.o.begin /\ ~r.o.prepare) => \E l \in r.logs : l.msg = "prepare_failed"
        /\ (r.commits = 1 /\ ~r.o.commit) => \E l \in r.logs : l.msg = "commit_failed"
        /\ \A i \in 1 .. Len(r.entries) :
               i \notin r.o.ok => InsertFailureLogged(r, r.entries[i].id)

\* C14: when Begin succeeds and Prepare fails, processAuditBatch attempts
\* one independent insert per entry in batch order, never calls Commit,
\* rolls the transaction back, and writes no row through it; the store
\* holds exactly the entries whose independent insert was accepted.
C14_PrepareFailureFallback ==
    \A r \in returned :
        (r.o.begin /\ ~r.o.prepare) =>
            /\ r.attempts = AttemptsOf(r.entries, "db")
            /\ r.commits = 0
            /\ r.tx = "rolled_back"
            /\ StoredExactly(r, r.o.ok)

\* a call whose Prepare failed and whose batch is in the store in full
C14_Witness ==
    \E r \in returned :
        /\ r.o.begin /\ ~r.o.prepare
        /\ Len(r.entries) >= 2
        /\ r.o.ok = 1 .. Len(r.entries)
        /\ r.tx = "rolled_back"
        /\ StoredExactly(r, r.o.ok)

\* C15: inside an open transaction with a prepared statement, every entry
\* of the batch has its insert attempted once, in order, whatever the
\* earlier inserts returned; Commit is called once; if it succeeds the
\* store holds exactly the entries whose insert succeeded.
C15_PartialFailureCommits ==
    \A r \in returned :
        (r.o.begin /\ r.o.prepare) =>
            /\ r.attempts = AttemptsOf(r.entries, "tx")
            /\ r.commits = 1
            /\ r.o.commit => (r.tx = "committed" /\ StoredExactly(r, r.o.ok))

\* a committed call whose first insert failed and whose second succeeded
C15_Witness ==
    \E r \in returned :
        /\ r.o.begin /\ r.o.prepare /\ r.o.commit
        /\ Len(r.entries) >= 2
        /\ 1 \notin r.o.ok /\ 2 \in r.o.ok
        /\ r.tx = "committed"
        /\ InsertFailureLogged(r, r.entries[1].id)

\* C16: after a failed Commit none of the batch's entries is in the store,
\* each insert was attempted once inside the transaction and Commit once,
\* no independent insert was made, and the entries are gone from the
\* pipeline: in no worker's batch, on no channel, in no other call.
C16_CommitFailureLosesBatch ==
    \A r \in returned :
        (r.o.begin /\ r.o.prepare /\ ~r.o.commit) =>
            /\ StoredExactly(r, {})
            /\ r.attempts = AttemptsOf(r.entries, "tx")
            /\ r.commits = 1
            /\ r.tx = "rolled_back"
            /\ \A w \in Workers : Ids(batch[w]) \cap Ids(r.entries) = {}
            /\ Ids(auditLogChan) \cap Ids(r.entries) = {}
            /\ BatchIds(auditBatchChan) \cap Ids(r.entries) = {}
            /\ Cardinality({h \in handed : Ids(h.entries) \cap Ids(r.entries) # {}}) = 1

\* a size flush whose inserts all succeeded and whose Commit failed; the
\* worker is back in its loop with an empty batch
C16_Witness ==
    \E r \in returned :
        /\ r.o.begin /\ r.o.prepare /\ ~r.o.commit
        /\ r.o.ok = 1 .. Len(r.entries)
        /\ Len(r.entries) = BatchSize
        /\ r.worker \in Workers
        /\ pc[r.worker] = "select" /\ batch[r.worker] = <<>>
        /\ StoredExactly(r, {})

\* C17: a pre-formed batch is received and committed by auditBatchWorker
\* only; an auditWorker never receives from auditBatchChan.
C17_OnlyBatchWorkerConsumes ==
    /\ \A h \in handed : h.trigger = "direct" => h.worker = BatchWorker
    /\ \A w \in Workers : pc[w] # "flush_direct"

\* C18: once StopAuditLogger has returned, every pre-formed batch that was
\* on auditBatchChan when it was called has been handed to
\* processAuditBatch and none of them is left on the channel.
C18_BatchWorkerDrains ==
    mainPc = "stopped" =>
        /\ atStop.batches \subseteq HandedIds
        /\ atStop.batches \cap BatchIds(auditBatchChan) = {}

\* C19: when the process that called StartAuditLogger has ended,
\* StopAuditLogger has been invoked (close(auditStopCh) ran) and has
\* returned.
C19_StopInvokedOnce ==
    (~Alive /\ pc[BatchWorker] # "unstarted") =>
        (auditStopCh /\ atStop.returnedAt > 0)

\* the last entry of auditLogChan' is the request's entry, behind the
\* entries that were queued before
Appended ==
    /\ Len(auditLogChan') = Len(auditLogChan) + 1
    /\ SubSeq(auditLogChan', 1, Len(auditLogChan)) = auditLogChan
    /\ auditLogChan'[Len(auditLogChan')].id = nextId

\* C20: after StopAuditLogger has returned, a request that finds free space
\* on auditLogChan appends its entry and logs no rejection; no entry leaves
\* the queue any more and no call of processAuditBatch is made.
C20_AcceptedNeverDrained ==
    [][mainPc = "stopped" =>
          /\ (IsRequest /\ Len(auditLogChan) < QueueCap) => (Appended /\ ~Rejected)
          /\ Len(auditLogChan') >= Len(auditLogChan)
          /\ SubSeq(auditLogChan', 1, Len(auditLogChan)) = auditLogChan
          /\ handed' = handed
          /\ returned' = returned
          /\ store' = store
          /\ \A w \in AllWorkers : pc'[w] = "done"
       ]_vars

\* StopAuditLogger has returned; auditLogChan holds an entry of a request
\* made after that, and nothing was ever handed to processAuditBatch
C20_Witness ==
    /\ mainPc = "stopped"
    /\ \E i \in 1 .. Len(auditLogChan) : auditLogChan[i].id >= atStop.returnedAt
    /\ Ids(auditLogChan) \cap HandedIds = {}

\* C21: a worker's batch grows only by the entry this worker receives from
\* auditLogChan, at its end, and is emptied only when this worker returns
\* from its own flush; a batch handed to processAuditBatch by a size, timer
\* or stop flush is the caller's own batch; the batches of two workers and
\* the batches of two such calls share no entry.
C21_BatchOwnership ==
    /\ [](\A w, v \in Workers : w # v => Ids(batch[w]) \cap Ids(batch[v]) = {})
    /\ [](\A g, h \in {k \in handed : k.trigger # "direct"} :
             g # h => Ids(g.entries) \cap Ids(h.entries) = {})
    /\ [][\A w \in Workers :
             /\ batch'[w] # batch[w] =>
                    \/ /\ pc[w] \in {"flush_size", "flush_timer", "flush_stop"}
                       /\ pc'[w] \in {"select", "done"}
                       /\ batch'[w] = <<>>
                    \/ /\ pc[w] = "select"
                       /\ auditLogChan # <<>>
                       /\ batch'[w] = Append(batch[w], Head(auditLogChan))
                       /\ auditLogChan' = Tail(auditLogChan)
                       /\ \A v \in Workers \ {w} : batch'[v] = batch[v]
             /\ \A h \in NewCalls(w) :
                    h.trigger # "direct" =>
                        /\ h.entries = batch'[w]
                        /\ pc'[w] \in {"flush_size", "flush_timer", "flush_stop"}
             /\ (pc[w] \in {"flush_size", "flush_timer"} /\ pc'[w] = "select") =>
                    batch'[w] = <<>>
       ]_vars

\* a worker has handed a full batch of its own while another worker holds
\* an entry in its batch
C21_Witness ==
    \E h \in handed :
        /\ h.trigger = "size"
        /\ \E v \in Workers \ {h.worker} : batch[v] # <<>>

\* C22: an auditWorker that takes its timer case with an empty batch calls
\* nothing and changes nothing but the timer, which it re-arms; no timer
\* flush carries an empty batch; processAuditBatch on an empty batch opens
\* no transaction, attempts no insert, logs nothing and leaves the store
\* as it is.
C22_EmptyTimerNoEffect ==
    /\ [](\A h \in handed : h.trigger = "timer" => h.entries # <<>>)
    /\ [](\A r \in returned :
             r.entries = <<>> =>
                 r.tx = "none" /\ r.attempts = <<>> /\ r.commits = 0 /\ r.logs = {})
    /\ [][/\ \A w \in Workers :
                (/\ pc[w] = "select" /\ batch[w] = <<>>
                 /\ TimerReady(batchTimer[w])
                 /\ batchTimer'[w] \in {"armed", "drained", "none"}) =>
                    /\ batchTimer'[w] = "armed"
                    /\ UNCHANGED <<auditLogChan, auditBatchChan, pc, batch,
                                   batchEntries, store, logs, handed, returned>>
          /\ \A r \in returned' \ returned : r.entries = <<>> => store' = store
       ]_vars

\* processAuditBatch has returned from a call on an empty batch, the store
\* is empty, and an idle worker with an empty batch finds its timer fired
C22_Witness ==
    /\ \E r \in returned : r.entries = <<>>
    /\ store = EmptyBag
    /\ \E w \in Workers :
           pc[w] = "select" /\ batch[w] = <<>> /\ TimerReady(batchTimer[w])

\* C23: a call of processAuditBatch opens at most one transaction; when it
\* has returned, a transaction it opened is committed (Commit succeeded) or
\* rolled back (Prepare or Commit failed), and none was opened if Begin
\* failed; so a worker in its select has left no transaction open.
C23_NoOpenTransaction ==
    /\ \A r \in returned :
           /\ r.opened \in {0, 1}
           /\ r.opened = (IF r.entries # <<>> /\ r.o.begin THEN 1 ELSE 0)
           /\ r.opened = 0 => r.tx = "none"
           /\ r.opened = 1 =>
                  r.tx = (IF r.o.prepare /\ r.o.commit THEN "committed"
                          ELSE "rolled_back")
    /\ \A w \in AllWorkers :
           pc[w] = "select" =>
               \A r \in returned : r.worker = w => r.tx # "open"

\* a worker is back in its select after a call whose Prepare failed and
\* another call's Commit failed; both transactions are rolled back
C23_Witness ==
    \E r, q \in returned :
        /\ r.o.begin /\ ~r.o.prepare /\ r.tx = "rolled_back"
        /\ q.o.begin /\ q.o.prepare /\ ~q.o.commit /\ q.tx = "rolled_back"
        /\ pc[r.worker] = "select"

\* every entry that is somewhere in the pipeline
InPipeline ==
    {auditLogChan[i] : i \in 1 .. Len(auditLogChan)}
        \cup UNION {{batch[w][i] : i \in 1 .. Len(batch[w])} : w \in Workers}
        \cup UNION {{h.entries[i] : i \in 1 .. Len(h.entries)} :
                       h \in {k \in handed : k.trigger # "direct"}}

\* C24: every row of the store carries the actor id, event kind, resource
\* type and resource id of the entry the producer enqueued under that id,
\* whether it was inserted inside a transaction or independently; every
\* entry on auditLogChan, in a worker's batch or in a call is still the
\* entry the producer enqueued.
C24_RowsEqualSubmitted ==
    /\ \A row \in BagToSet(store) :
           \E e \in enqueued :
               /\ e.id = row.id
               /\ row.user_id = e.UserID
               /\ row.event_type = e.Event
               /\ row.table_name = e.Table
               /\ row.record_id = e.RecordID
    /\ InPipeline \subseteq enqueued
    /\ \A e, f \in enqueued : e.id = f.id => e = f

\* Begin failed and the independent inserts stored an entry with an actor
\* and an entry without one
C24_Witness ==
    \E r \in returned :
        /\ ~r.o.begin
        /\ r.o.ok = 1 .. Len(r.entries)
        /\ \E i, j \in 1 .. Len(r.entries) :
               /\ r.entries[i].UserID # Nil /\ r.entries[j].UserID = Nil
               /\ BagIn(Row(r.entries[i]), store)
               /\ BagIn(Row(r.entries[j]), store)

\* C25: a DELETE entry for a role is enqueued only by a step that turns
\* this role from active to soft-deleted, an UPDATE entry only for an
\* active role, and a step that enqueues an entry logs no failure.
C25_OnlyCompletedMutations ==
    [][\A e \in enqueued' \ enqueued :
          e.Table = "roles" =>
              /\ e.Event = "DELETE" =>
                     roles[e.RecordID] = "active" /\ roles'[e.RecordID] = "deleted"
              /\ e.Event = "UPDATE" => roles[e.RecordID] = "active"
              /\ logs' = logs
      ]_vars

\* the positions at which entry id sits on auditLogChan
Queued(id) == {k \in 1 .. Len(auditLogChan) : auditLogChan[k].id = id}

\* the positions at which entry id sits in the batch of a worker, be the
\* worker in its select or inside a call
Held(id) ==
    UNION {{<<w, i>> : i \in {k \in 1 .. Len(batch[w]) : batch[w][k].id = id}} :
              w \in Workers}

\* the returned calls of processAuditBatch that had entry id in their batch
Processed(id) ==
    UNION {{<<r, i>> : i \in {k \in 1 .. Len(r.entries) : r.entries[k].id = id}} :
              r \in returned}

\* C26: every entry that a producer's send placed on auditLogChan is at
\* exactly one place: on auditLogChan, in the batch of one worker (waiting
\* in its select or inside processAuditBatch), or in one call of
\* processAuditBatch that has returned.
C26_Conservation ==
    \A e \in enqueued :
        /\ Cardinality(Queued(e.id)) + Cardinality(Held(e.id))
               + Cardinality(Processed(e.id)) = 1
        /\ \A h \in handed :
               e.id \in Ids(h.entries) =>
                   \/ Processed(e.id) # {}
                   \/ InCommit(h.worker) /\ e.id \in Ids(Inflight(h.worker))

\* one entry is inside a call of processAuditBatch, another in the batch of
\* a worker that waits in its select, a third on auditLogChan
C26_Witness ==
    /\ auditLogChan # <<>>
    /\ \E w, v \in Workers :
           /\ InCommit(w) /\ batch[w] # <<>>
           /\ pc[v] = "select" /\ batch[v] # <<>>
    /\ \A e \in enqueued : Cardinality(Queued(e.id)) + Cardinality(Held(e.id)) = 1

\* the number of rows of the store written for entry id
RowsOf(id) ==
    LET rows == {row \in BagToSet(store) : row.id = id}
    IN  IF rows = {} THEN 0
        ELSE IF Cardinality(rows) = 1
             THEN CopiesIn(CHOOSE row \in rows : TRUE, store)
             ELSE 2

\* the insert attempts made for entry id over all returned calls
AttemptsFor(id) ==
    UNION {{<<r, i>> : i \in {k \in 1 .. Len(r.attempts) : r.attempts[k].id = id}} :
              r \in returned}

\* C27: whatever the store fails, every enqueued entry has at most one row
\* in the store and at most one insert attempt; the attempts of one call
\* all go through the transaction or all through independent inserts.
C27_AtMostOneRow ==
    /\ \A e \in enqueued :
           /\ RowsOf(e.id) <= 1
           /\ Cardinality(AttemptsFor(e.id)) <= 1
    /\ \A r \in returned :
           \A i, j \in 1 .. Len(r.attempts) : r.attempts[i].via = r.attempts[j].via

\* one batch went through independent inserts after a failed Begin, another
\* through a committed transaction, and each left a row
C27_Witness ==
    \E r, q \in returned :
        /\ ~r.o.begin /\ r.o.ok # {}
        /\ q.tx = "committed" /\ q.o.ok # {}
        /\ \E e, f \in enqueued :
               /\ e.id \in Ids(r.entries) /\ RowsOf(e.id) = 1
               /\ f.id \in Ids(q.entries) /\ RowsOf(f.id) = 1

\* C28: in a pipeline that is never stopped, every entry a producer's send
\* placed on auditLogChan is eventually handed to processAuditBatch, also
\* while pre-formed batches keep arriving and keep workers inside calls.
C28_ProgressWithoutShutdown ==
    \A i \in 1 .. LiveEvents :
        (\E e \in enqueued : e.id = i) ~> (i \in HandedIds)

\* an entry was flushed by a timer while another worker is inside the call
\* for a pre-formed batch and the next pre-formed batch is already waiting
C28_Witness ==
    \E h \in handed :
        /\ h.trigger = "timer"
        /\ \E v \in Workers \ {h.worker} : pc[v] = "flush_direct"
        /\ auditBatchChan # <<>>

\* C29: an auditWorker that receives a pre-formed batch hands exactly this
\* batch to processAuditBatch; from the receive to the return of the call
\* the worker's own batch stays as it is, and neither the receive nor the
\* return touches the worker's timer or auditLogChan.
C29_RelayLeavesBatch ==
    [][\A w \in Workers :
          /\ (pc[w] = "select" /\ pc'[w] = "flush_direct") =>
                 /\ auditBatchChan # <<>>
                 /\ auditBatchChan' = Tail(auditBatchChan)
                 /\ NewCalls(w) = {[worker |-> w, trigger |-> "direct",
                                    entries |-> Head(auditBatchChan)]}
                 /\ handed' \ handed = NewCalls(w)
                 /\ UNCHANGED <<auditLogChan, batch, batchTimer, aged, store>>
          /\ pc[w] = "flush_direct" =>
                 /\ batch'[w] = batch[w]
                 /\ pc'[w] \in {"flush_direct", "select"}
                 /\ pc'[w] = "select" =>
                        /\ UNCHANGED <<auditLogChan, batch, batchTimer, aged, handed>>
                        /\ \E r \in returned' :
                               r.worker = w /\ r.entries = batchEntries[w]
      ]_vars

\* a worker is back in its select after the call for a pre-formed batch,
\* whose row is in the store; the worker's own batch still holds an entry,
\* which is in no call and not in the store
C29_Witness ==
    \E w \in Workers, r \in returned :
        /\ r.worker = w /\ r.entries # <<>>
        /\ [worker |-> w, trigger |-> "direct", entries |-> r.entries] \in handed
        /\ BagIn(Row(r.entries[1]), store)
        /\ pc[w] = "select" /\ batch[w] # <<>>
        /\ Ids(batch[w]) \cap HandedIds = {}
        /\ ~BagIn(Row(batch[w][1]), store)

\* C30: once auditStopCh is closed no call of StopAuditLogger gets to its
\* Wait: the call panics in close and touches neither the channel nor the
\* WaitGroup nor the workers; a call made before any StartAuditLogger finds
\* the WaitGroup at zero, so its Wait returns at once.
C30_StopNotIdempotent ==
    /\ []((mainPc = "waiting" /\ \A w \in AllWorkers : pc[w] = "unstarted") =>
             (auditWorkerWG = 0 /\ ENABLED StopAuditLogger_wait))
    /\ [][/\ (auditStopCh /\ mainPc' # mainPc) =>
                 \/ mainPc = "waiting" /\ mainPc' = "stopped" /\ auditWorkerWG = 0
                 \/ mainPc' = "panicked"
          /\ mainPc' = "panicked" =>
                 /\ auditStopCh
                 /\ UNCHANGED <<auditStopCh, auditWorkerWG, pc, atStop>>
          /\ mainPc = "panicked" => mainPc' = "panicked"
       ]_vars

\* a first call without any StartAuditLogger has returned, and a second call
\* has panicked
C30_Witness ==
    /\ mainPc = "panicked"
    /\ atStop.returnedAt > 0
    /\ \A w \in AllWorkers : pc[w] = "unstarted"

====
